---- MODULE Spec2Model ----
(***************************************************************************)
(* The Black-Scholes pricing engine of src/app.py (class BlackScholes) as  *)
(* a state machine.                                                        *)
(*                                                                         *)
(* Numbers.  The program computes in IEEE-754 binary64.  A finite float x  *)
(* is held here as the integer round(x * ONE) (fixed point, six decimal    *)
(* digits); the non-finite floats nan, +inf and -inf are kept as values of *)
(* their own, with the arithmetic numpy gives them, because the program    *)
(* produces them from zero and negative parameters.  The library functions *)
(* np.log, np.sqrt, np.exp, norm.cdf and norm.pdf are computed by integer  *)
(* algorithms that are accurate to a few units of the last digit.          *)
(***************************************************************************)
EXTENDS Integers, Sequences, FiniteSets, TLC

\* One unit of the fixed-point representation: the float 1.0.
ONE == 1000000

\* sqrt(ONE): the base in which a product is split so that no intermediate
\* exceeds the 32-bit integers of the model checker.
BASE == 1000

Abs(n) == IF n < 0 THEN -n ELSE n

Sgn(n) == IF n < 0 THEN -1 ELSE IF n > 0 THEN 1 ELSE 0

\* n / d for d > 0, rounded to nearest (ties away from zero).
RoundDiv(n, d) ==
    IF n >= 0 THEN (n + d \div 2) \div d ELSE -((-n + d \div 2) \div d)

(***************************************************************************)
(* Finite arithmetic: float * and / on fixed-point operands.               *)
(***************************************************************************)

\* a * b, rounded to nearest unit.
MulF(a, b) ==
    LET x  == Abs(a)
        y  == Abs(b)
        x1 == x \div BASE
        x0 == x % BASE
        y1 == y \div BASE
        y0 == y % BASE
        t  == x1 * y0 + x0 * y1
        lo == ((t % BASE) * BASE + x0 * y0 + ONE \div 2) \div ONE
    IN  Sgn(a) * Sgn(b) * (x1 * y1 + t \div BASE + lo)

\* The six fractional decimal digits of r / y (0 <= r < y), as an integer,
\* followed by the remainder: long division, one digit at a time.
RECURSIVE FracDigits(_, _, _, _)
FracDigits(r, y, n, acc) ==
    IF n = 0 THEN <<acc, r>>
    ELSE FracDigits((r * 10) % y, y, n - 1, acc * 10 + (r * 10) \div y)

\* a / b for b # 0, rounded to nearest unit.
DivF(a, b) ==
    LET x  == Abs(a)
        y  == Abs(b)
        fr == FracDigits(x % y, y, 6, 0)
        up == IF 2 * fr[2] >= y THEN 1 ELSE 0
    IN  Sgn(a) * Sgn(b) * ((x \div y) * ONE + fr[1] + up)

(***************************************************************************)
(* np.sqrt, np.log and np.exp on finite operands.                          *)
(***************************************************************************)

\* Newton's iteration y -> (y + x/y) / 2 from above, until it stops falling.
RECURSIVE SqrtIter(_, _)
SqrtIter(x, y) ==
    LET z == (y + DivF(x, y)) \div 2
    IN  IF z >= y THEN y ELSE SqrtIter(x, z)

\* sqrt(x) for x >= 0.
SqrtF(x) == IF x = 0 THEN 0 ELSE SqrtIter(x, (x + ONE) \div 2 + 1)

\* ln 2.
LN2 == 693147

\* ln(m) for m in [3/4, 3/2]: 2 * atanh(z), z = (m - 1) / (m + 1), by its
\* series z + z^3/3 + z^5/5 + z^7/7 + z^9/9.
LnNear1(m) ==
    LET z  == DivF(m - ONE, m + ONE)
        z2 == MulF(z, z)
        z3 == MulF(z, z2)
        z5 == MulF(z3, z2)
        z7 == MulF(z5, z2)
        z9 == MulF(z7, z2)
    IN  2 * (z + RoundDiv(z3, 3) + RoundDiv(z5, 5) + RoundDiv(z7, 7)
               + RoundDiv(z9, 9))

\* ln(x) for x > 0: halve or double x into [3/4, 3/2], adding or subtracting
\* ln 2 each time.
RECURSIVE LnF(_)
LnF(x) ==
    IF 2 * x > 3 * ONE THEN LnF(RoundDiv(x, 2)) + LN2
    ELSE IF 4 * x < 3 * ONE THEN LnF(2 * x) - LN2
    ELSE LnNear1(x)

\* e^r for |r| <= ln 2, by Horner's rule on the Taylor series up to r^10/10!.
RECURSIVE ExpHorner(_, _)
ExpHorner(r, n) ==
    IF n > 10 THEN ONE
    ELSE ONE + RoundDiv(MulF(r, ExpHorner(r, n + 1)), n)

RECURSIVE Pow2(_)
Pow2(k) == IF k = 0 THEN 1 ELSE 2 * Pow2(k - 1)

\* Below this argument e^x is less than half a unit: it rounds to 0.
ExpFloor == -15 * ONE

\* e^x: x = k ln 2 + r with 0 <= r < ln 2, e^x = 2^k e^r.
ExpF(x) ==
    IF x < ExpFloor THEN 0
    ELSE LET k == IF x >= 0 THEN x \div LN2 ELSE -((-x + LN2 - 1) \div LN2)
             r == x - k * LN2
             e == ExpHorner(r, 1)
         IN  IF k >= 0 THEN e * Pow2(k) ELSE RoundDiv(e, Pow2(-k))

(***************************************************************************)
(* scipy.stats.norm on finite operands.                                    *)
(***************************************************************************)

\* 1 / sqrt(2 pi).
INV_SQRT_2PI == 398942

\* Beyond this magnitude binary64 itself has norm.pdf(x) = 0.0 and
\* norm.cdf(-x) = 0.0 (both underflow), and x * x leaves the model's range.
TailCut == 40 * ONE

\* norm.pdf(x) = exp(-x^2 / 2) / sqrt(2 pi).
PdfF(x) ==
    IF Abs(x) > TailCut THEN 0
    ELSE MulF(INV_SQRT_2PI, ExpF(-RoundDiv(MulF(x, x), 2)))

\* The upper tail 1 - Phi(x) for x >= 0: pdf(x) * (b1 t + ... + b5 t^5) with
\* t = 1 / (1 + p x) (Abramowitz and Stegun 26.2.17, error below 7.5e-8).
UpperTail(x) ==
    LET t == DivF(ONE, ONE + MulF(231642, x))
        h == MulF(t, 319382 + MulF(t, -356564 + MulF(t, 1781478
                 + MulF(t, -1821256 + MulF(t, 1330274)))))
    IN  MulF(PdfF(x), h)

\* norm.cdf(x).
CdfF(x) ==
    IF x > TailCut THEN ONE
    ELSE IF x < -TailCut THEN 0
    ELSE IF x >= 0 THEN ONE - UpperTail(x)
    ELSE UpperTail(-x)

(***************************************************************************)
(* Floats: the finite ones and nan, +inf, -inf, with numpy's arithmetic    *)
(* (a division by zero gives inf or nan and a warning, not an exception).  *)
(***************************************************************************)

Fin(n) == [k |-> "fin", v |-> n]

NaN == [k |-> "nan", v |-> 0]

PosInf == [k |-> "inf", v |-> 1]

NegInf == [k |-> "inf", v |-> -1]

IsFin(a) == a.k = "fin"

IsNaN(a) == a.k = "nan"

\* The sign of a float that is not nan: -1, 0 or 1.
XSgn(a) == Sgn(a.v)

Inf(s) == IF s < 0 THEN NegInf ELSE PosInf

\* -a
XNeg(a) == [a EXCEPT !.v = -a.v]

\* a + b
XAdd(a, b) ==
    IF IsNaN(a) \/ IsNaN(b) THEN NaN
    ELSE IF IsFin(a) /\ IsFin(b) THEN Fin(a.v + b.v)
    ELSE IF IsFin(a) THEN b
    ELSE IF IsFin(b) THEN a
    ELSE IF a.v = b.v THEN a ELSE NaN

\* a - b
XSub(a, b) == XAdd(a, XNeg(b))

\* a * b
XMul(a, b) ==
    IF IsNaN(a) \/ IsNaN(b) THEN NaN
    ELSE IF IsFin(a) /\ IsFin(b) THEN Fin(MulF(a.v, b.v))
    ELSE IF XSgn(a) = 0 \/ XSgn(b) = 0 THEN NaN
    ELSE Inf(XSgn(a) * XSgn(b))

\* a / b
XDiv(a, b) ==
    IF IsNaN(a) \/ IsNaN(b) THEN NaN
    ELSE IF IsFin(a) /\ IsFin(b)
         THEN IF b.v # 0 THEN Fin(DivF(a.v, b.v))
              ELSE IF a.v = 0 THEN NaN ELSE Inf(XSgn(a))
    ELSE IF IsFin(a) THEN Fin(0)
    ELSE IF IsFin(b) THEN Inf(XSgn(a) * (IF b.v < 0 THEN -1 ELSE 1))
    ELSE NaN

\* np.log(a): -inf at 0, nan below 0.
XLog(a) ==
    IF IsNaN(a) THEN NaN
    ELSE IF IsFin(a)
         THEN IF a.v > 0 THEN Fin(LnF(a.v))
              ELSE IF a.v = 0 THEN NegInf ELSE NaN
    ELSE IF a.v > 0 THEN PosInf ELSE NaN

\* np.sqrt(a): nan below 0.
XSqrt(a) ==
    IF IsNaN(a) THEN NaN
    ELSE IF IsFin(a) THEN (IF a.v >= 0 THEN Fin(SqrtF(a.v)) ELSE NaN)
    ELSE IF a.v > 0 THEN PosInf ELSE NaN

\* np.exp(a)
XExp(a) ==
    IF IsNaN(a) THEN NaN
    ELSE IF IsFin(a) THEN Fin(ExpF(a.v))
    ELSE IF a.v > 0 THEN PosInf ELSE Fin(0)

\* norm.cdf(a): 1 at +inf, 0 at -inf.
XCdf(a) ==
    IF IsNaN(a) THEN NaN
    ELSE IF IsFin(a) THEN Fin(CdfF(a.v))
    ELSE IF a.v > 0 THEN Fin(ONE) ELSE Fin(0)

\* norm.pdf(a): 0 at both infinities.
XPdf(a) ==
    IF IsNaN(a) THEN NaN
    ELSE IF IsFin(a) THEN Fin(PdfF(a.v))
    ELSE Fin(0)

(***************************************************************************)
(* class BlackScholes.  An instance is the record of its five attributes;  *)
(* a method is an operator of the instance, `self`.                        *)
(***************************************************************************)

\* BlackScholes.__init__: stores the five arguments as given; it checks
\* nothing and raises nothing.
__init__(time_to_maturity, strike, current_price, volatility, interest_rate) ==
    [time_to_maturity |-> time_to_maturity,
     strike           |-> strike,
     current_price    |-> current_price,
     volatility       |-> volatility,
     interest_rate    |-> interest_rate]

\* What a method returns when an exception leaves it.
Raised(e) == [exc |-> e]

\* VolSqrtT with the wrong attribute under the root:
\* volatility * np.sqrt(interest_rate).
VolSqrtRate(self) ==
    XMul(Fin(self.volatility), XSqrt(Fin(self.interest_rate)))

\* volatility * np.sqrt(time_to_maturity), the divisor of d1.
VolSqrtT(self) ==
    XMul(Fin(self.volatility), XSqrt(Fin(self.time_to_maturity)))

\* calculate_d1_d2 with the quotient upside down: np.log(strike / current_price).
calculate_d1_d2_inverted(self) ==
    IF self.current_price = 0 THEN Raised("ZeroDivisionError")
    ELSE LET drift == MulF(self.interest_rate
                            + RoundDiv(MulF(self.volatility, self.volatility), 2),
                           self.time_to_maturity)
             d1 == XDiv(XAdd(XLog(Fin(DivF(self.strike, self.current_price))),
                             Fin(drift)),
                        XMul(Fin(self.volatility),
                             XSqrt(Fin(self.time_to_maturity))))
             d2 == XSub(d1, XMul(Fin(self.volatility),
                                 XSqrt(Fin(self.time_to_maturity))))
         IN  [exc |-> "none", d1 |-> d1, d2 |-> d2]

\* BlackScholes.calculate_d1_d2.  current_price / strike divides two Python
\* floats, which raises ZeroDivisionError at strike = 0; every later
\* operation is numpy's, which raises nothing.
calculate_d1_d2(self) ==
    IF self.strike = 0 THEN Raised("ZeroDivisionError")
    ELSE LET drift == MulF(self.interest_rate
                            + RoundDiv(MulF(self.volatility, self.volatility), 2),
                           self.time_to_maturity)
             d1 == XDiv(XAdd(XLog(Fin(DivF(self.current_price, self.strike))),
                             Fin(drift)),
                        VolSqrtT(self))
             d2 == XSub(d1, VolSqrtT(self))
         IN  [exc |-> "none", d1 |-> d1, d2 |-> d2]

\* np.exp(-interest_rate * time_to_maturity)
Discount(self) ==
    XExp(Fin(MulF(-self.interest_rate, self.time_to_maturity)))

\* np.sqrt(time_to_maturity)
SqrtT(self) == XSqrt(Fin(self.time_to_maturity))

\* CallPrice with d1 and d2 exchanged.
CallPriceSwapped(self, d1, d2) ==
    XSub(XMul(Fin(self.current_price), XCdf(d2)),
         XMul(XMul(Fin(self.strike), XExp(Fin(MulF(-self.interest_rate,
                                                    self.time_to_maturity)))),
              XCdf(d1)))

\* call_price = current_price * norm.cdf(d1)
\*              - strike * np.exp(-interest_rate * time_to_maturity) * norm.cdf(d2)
CallPrice(self, d1, d2) ==
    XSub(XMul(Fin(self.current_price), XCdf(d1)),
         XMul(XMul(Fin(self.strike), Discount(self)), XCdf(d2)))

\* PutPrice without the two minus signs: norm.cdf(d2) and norm.cdf(d1).
PutPriceUnnegated(self, d1, d2) ==
    XSub(XMul(XMul(Fin(self.strike), XExp(Fin(MulF(-self.interest_rate,
                                                    self.time_to_maturity)))),
              XCdf(d2)),
         XMul(Fin(self.current_price), XCdf(d1)))

\* put_price = strike * np.exp(-interest_rate * time_to_maturity) * norm.cdf(-d2)
\*             - current_price * norm.cdf(-d1)
PutPrice(self, d1, d2) ==
    XSub(XMul(XMul(Fin(self.strike), Discount(self)), XCdf(XNeg(d2))),
         XMul(Fin(self.current_price), XCdf(XNeg(d1))))

\* BlackScholes.calculate_prices: the pair (call_price, put_price), or the
\* exception of calculate_d1_d2.
calculate_prices(self) ==
    LET d == calculate_d1_d2(self)
    IN  IF d.exc # "none" THEN d
        ELSE [exc        |-> "none",
              call_price |-> CallPrice(self, d.d1, d.d2),
              put_price  |-> PutPrice(self, d.d1, d.d2)]

\* CallDelta as a percentage: norm.cdf(d1) * 100.
CallDeltaPercent(d1) == XMul(XCdf(d1), Fin(100 * ONE))

\* c_delta = norm.cdf(d1)
CallDelta(d1) == XCdf(d1)

\* PutDelta without the "- 1": norm.cdf(-d1).
PutDeltaMirrored(d1) == XCdf(XNeg(d1))

\* p_delta = norm.cdf(d1) - 1
PutDelta(d1) == XSub(XCdf(d1), Fin(ONE))

\* -(current_price * volatility * norm.pdf(d1)) / (2 * np.sqrt(time_to_maturity)),
\* the first term of c_theta and of p_theta.
ThetaDecay(self, d1) ==
    XDiv(XNeg(XMul(Fin(MulF(self.current_price, self.volatility)), XPdf(d1))),
         XMul(Fin(2 * ONE), SqrtT(self)))

\* interest_rate * strike * np.exp(-interest_rate * time_to_maturity) * norm.cdf(x),
\* the second term of c_theta (x = d2) and of p_theta (x = -d2).
ThetaCarry(self, x) ==
    XMul(XMul(Fin(MulF(self.interest_rate, self.strike)), Discount(self)),
         XCdf(x))

\* Gamma with the leading minus of the theta formula.
GammaNegated(self, d1) ==
    XDiv(XNeg(XPdf(d1)),
         XMul(Fin(MulF(self.current_price, self.volatility)),
              XSqrt(Fin(self.time_to_maturity))))

\* gamma = norm.pdf(d1) / (current_price * volatility * np.sqrt(time_to_maturity))
Gamma(self, d1) ==
    XDiv(XPdf(d1),
         XMul(Fin(MulF(self.current_price, self.volatility)), SqrtT(self)))

\* vega = current_price * np.sqrt(time_to_maturity) * norm.pdf(d1) / 100
Vega(self, d1) ==
    XDiv(XMul(XMul(Fin(self.current_price), SqrtT(self)), XPdf(d1)),
         Fin(100 * ONE))

\* c_rho = strike * time_to_maturity * np.exp(-interest_rate * time_to_maturity)
\*         * norm.cdf(d2)
CallRho(self, d2) ==
    XMul(XMul(Fin(MulF(self.strike, self.time_to_maturity)), Discount(self)),
         XCdf(d2))

\* p_rho = -strike * time_to_maturity * np.exp(-interest_rate * time_to_maturity)
\*         * norm.cdf(-d2)
PutRho(self, d2) ==
    XMul(XMul(Fin(MulF(-self.strike, self.time_to_maturity)), Discount(self)),
         XCdf(XNeg(d2)))

\* calculate_greeks with a d1 and d2 of its own instead of the pair that
\* calculate_d1_d2 returns, and the 0.5 of the drift lost in the copy:
\* (interest_rate + volatility ** 2) * time_to_maturity.
calculate_greeks_own_d1_d2(self) ==
    IF self.strike = 0 THEN Raised("ZeroDivisionError")
    ELSE LET drift == MulF(self.interest_rate
                            + MulF(self.volatility, self.volatility),
                           self.time_to_maturity)
             d1 == XDiv(XAdd(XLog(Fin(DivF(self.current_price, self.strike))),
                             Fin(drift)),
                        XMul(Fin(self.volatility),
                             XSqrt(Fin(self.time_to_maturity))))
             d2 == XSub(d1, XMul(Fin(self.volatility),
                                 XSqrt(Fin(self.time_to_maturity))))
         IN  [exc     |-> "none",
              c_delta |-> XCdf(d1),
              p_delta |-> XSub(XCdf(d1), Fin(ONE)),
              gamma   |-> XDiv(XPdf(d1),
                               XMul(Fin(MulF(self.current_price,
                                             self.volatility)),
                                    XSqrt(Fin(self.time_to_maturity)))),
              c_theta |-> XSub(ThetaDecay(self, d1), ThetaCarry(self, d2)),
              p_theta |-> XAdd(ThetaDecay(self, d1), ThetaCarry(self, XNeg(d2))),
              vega    |-> XDiv(XMul(XMul(Fin(self.current_price),
                                         XSqrt(Fin(self.time_to_maturity))),
                                    XPdf(d1)),
                               Fin(100 * ONE)),
              c_rho   |-> CallRho(self, d2),
              p_rho   |-> PutRho(self, d2)]

\* BlackScholes.calculate_greeks: the eight Greeks in one tuple, or the
\* exception of calculate_d1_d2.
calculate_greeks(self) ==
    LET d == calculate_d1_d2(self)
    IN  IF d.exc # "none" THEN d
        ELSE [exc     |-> "none",
              c_delta |-> CallDelta(d.d1),
              p_delta |-> PutDelta(d.d1),
              gamma   |-> Gamma(self, d.d1),
              c_theta |-> XSub(ThetaDecay(self, d.d1), ThetaCarry(self, d.d2)),
              p_theta |-> XAdd(ThetaDecay(self, d.d1),
                               ThetaCarry(self, XNeg(d.d2))),
              vega    |-> Vega(self, d.d1),
              c_rho   |-> CallRho(self, d.d2),
              p_rho   |-> PutRho(self, d.d2)]

(***************************************************************************)
(* The callers.  Each caller holds five arguments (app.py reads them from  *)
(* its number_input widgets, which accept any float), constructs one       *)
(* engine from them and calls its methods, any number of times and in any  *)
(* order, interleaved with the other caller.                               *)
(***************************************************************************)

Callers == {1, 2}

\* The interest rates of the model run from -RateStep to MaxRateSteps * RateStep.
MaxRateSteps == 1

RateStep == ONE \div 50

SpotValues == {80 * ONE, 100 * ONE, 125 * ONE}

StrikeValues == {100 * ONE, 125 * ONE}

MaturityValues == {ONE \div 2, ONE}

VolatilityValues == {ONE \div 50, ONE \div 5}

RateValues == {k * RateStep : k \in -1..MaxRateSteps}

\* The parameter sets the specification calls valid.
ValidParams ==
    {__init__(t, k, s, v, r) : t \in MaturityValues, k \in StrikeValues,
                               s \in SpotValues, v \in VolatilityValues,
                               r \in RateValues}

\* At the money, one year, 20% volatility: the point the widgets start from.
BaseParams == {__init__(ONE, 100 * ONE, 100 * ONE, ONE \div 5, r) : r \in RateValues}

\* The base point with one parameter made zero or negative.
InvalidParams ==
    UNION {{[p EXCEPT !.strike = 0], [p EXCEPT !.strike = -p.strike],
            [p EXCEPT !.current_price = 0],
            [p EXCEPT !.current_price = -p.current_price],
            [p EXCEPT !.time_to_maturity = 0],
            [p EXCEPT !.time_to_maturity = -p.time_to_maturity],
            [p EXCEPT !.volatility = 0],
            [p EXCEPT !.volatility = -p.volatility]} : p \in BaseParams}

Params == ValidParams \cup InvalidParams

\* The constraint of the specification's data model.
IsValid(p) ==
    /\ p.current_price > 0
    /\ p.strike > 0
    /\ p.time_to_maturity > 0
    /\ p.volatility > 0

NoObject == [exc |-> "no_object"]

NotCalled == [exc |-> "not_called"]

(***************************************************************************)
(* The pages.  st.session_state is a dictionary that lives as long as the  *)
(* browser session; it is a function from the keys it holds.  A run of a   *)
(* page is the execution of its script from top to bottom.                 *)
(***************************************************************************)

\* The empty st.session_state of a new session.
EmptyState == [k \in {} |-> FALSE]

\* st.session_state[k] = v
Put(state, k, v) ==
    [x \in DOMAIN state \cup {k} |-> IF x = k THEN v ELSE state[x]]

\* del st.session_state[k]
Del(state, k) == [x \in DOMAIN state \ {k} |-> state[x]]

\* The CSV files a user has at hand.
MaxFiles == 2

\* A file is its name and what becomes of it: whether pd.read_csv parses it,
\* and whether the DataFrame it gives can be displayed (df.describe() and
\* st.dataframe raise on some frames).
Files == [name : 1..MaxFiles, parses : BOOLEAN, displays : BOOLEAN]

\* uploaded_file is None.
NoFile == [name |-> 0]

\* df = pd.read_csv(uploaded_file): the DataFrame of the file's content, or
\* the exception of the parser.
read_csv(f) ==
    IF f.parses
    THEN [exc |-> "none", df |-> [csv |-> f.name, displays |-> f.displays]]
    ELSE Raised("ParserError")

\* data_analysis with a handler that reports the error and leaves the flag
\* as the try block set it (no data_loaded = False in the except block).
data_analysis_flag_kept(state, f) ==
    IF f # NoFile
    THEN LET flagged == Put(state, "data_loaded", TRUE)
             parsed  == read_csv(f)
         IN  IF parsed.exc # "none" THEN flagged
             ELSE Put(flagged, "data", parsed.df)
    ELSE Put(Del(state, "data"), "data_loaded", FALSE)

\* pages/01_data_analysis.py, lines 28-73: st.session_state after a run in
\* which st.file_uploader returned f.  The flag is set before the file is
\* parsed, and reset by the handler of whatever the try block raises.
data_analysis(state, f) ==
    IF f # NoFile
    THEN LET flagged == Put(state, "data_loaded", TRUE)
             parsed  == read_csv(f)
         IN  IF parsed.exc # "none" THEN Put(flagged, "data_loaded", FALSE)
             ELSE LET stored == Put(flagged, "data", parsed.df)
                  IN  IF parsed.df.displays THEN stored
                      ELSE Put(stored, "data_loaded", FALSE)
    ELSE Put(Del(state, "data"), "data_loaded", FALSE)

\* What a run of the visualization page came to when it took the warning
\* branch of its guard.
Warning == [exc |-> "warning"]

\* pages/02_visualization.py, lines 17-25: the guard on data_loaded and the
\* read of st.session_state["data"], which raises KeyError on a missing key.
visualization(state) ==
    IF "data_loaded" \notin DOMAIN state \/ ~state["data_loaded"] THEN Warning
    ELSE IF "data" \in DOMAIN state THEN [exc |-> "none", df |-> state["data"]]
    ELSE Raised("KeyError")

\* The slider of the refresh interval: min_value, max_value.
MinInterval == 1

MaxInterval == 60

\* "refresh_interval": 5 of the initial settings.
DefaultInterval == 5

SettingsKeys == {"auto_refresh", "refresh_interval", "dark_mode", "show_statistics"}

\* The settings a session starts with.
DefaultSettings ==
    [auto_refresh     |-> FALSE,
     refresh_interval |-> DefaultInterval,
     dark_mode        |-> FALSE,
     show_statistics  |-> TRUE]

\* if "settings" not in st.session_state: st.session_state["settings"] = {...}
InitSettings(state) ==
    IF "settings" \notin DOMAIN state THEN Put(state, "settings", DefaultSettings)
    ELSE state

\* The positions the slider is moved to.
SliderValues == {MinInterval, DefaultInterval, MaxInterval}

\* What the four widgets of the form can return on a submission when the
\* settings shown are cur: the toggles either value, the slider a value of
\* its range, and its present value while it is disabled (not auto_refresh).
FormInputs(cur) ==
    {w \in [auto_refresh : BOOLEAN, refresh_interval : MinInterval..MaxInterval,
            dark_mode : BOOLEAN, show_statistics : BOOLEAN] :
        /\ w.refresh_interval \in SliderValues \cup {cur.refresh_interval}
        /\ ~cur.auto_refresh => w.refresh_interval = cur.refresh_interval}

\* settings_page without the "not in" test: the defaults are stored at the
\* top of every run.
settings_page_reset(state, submitted, w) ==
    LET ready == Put(state, "settings", DefaultSettings)
    IN  IF submitted
        THEN Put(ready, "settings",
                 [ready["settings"] EXCEPT !.dark_mode = w.dark_mode,
                                           !.show_statistics = w.show_statistics,
                                           !.auto_refresh = w.auto_refresh,
                                           !.refresh_interval = w.refresh_interval])
        ELSE ready

\* pages/03_settings.py, lines 15-60: st.session_state after a run in which
\* the form's widgets returned w and st.form_submit_button returned submitted.
settings_page(state, submitted, w) ==
    LET ready == InitSettings(state)
    IN  IF submitted
        THEN Put(ready, "settings",
                 [ready["settings"] EXCEPT !.dark_mode = w.dark_mode,
                                           !.show_statistics = w.show_statistics,
                                           !.auto_refresh = w.auto_refresh,
                                           !.refresh_interval = w.refresh_interval])
        ELSE ready

VARIABLES
    args,     \* args[c]: the five arguments caller c passes to BlackScholes(...)
    bs_model, \* bs_model[c]: caller c's engine, NoObject before it is constructed
    prices,   \* prices[c]: what calculate_prices last returned to caller c
    greeks,   \* greeks[c]: what calculate_greeks last returned to caller c
    d1_d2,    \* d1_d2[c]: what self.calculate_d1_d2() last returned inside a
              \* method that caller c called (the method's locals d1, d2)
    session_state,  \* st.session_state of the browser session
    uploaded_file,  \* what st.file_uploader returned in the last run of the
                    \* data-analysis page, NoFile for None
    chart,          \* what the last run of the visualization page came to
    submitted,      \* what st.form_submit_button returned in the last run of
                    \* the settings page
    widgets         \* what the four widgets of the settings form returned in
                    \* that run

engineVars == <<args, bs_model, prices, greeks, d1_d2>>

pageVars == <<session_state, uploaded_file, chart, submitted, widgets>>

vars == <<args, bs_model, prices, greeks, d1_d2,
          session_state, uploaded_file, chart, submitted, widgets>>

\* A browser session in which no page has run yet.
NewSession ==
    /\ session_state = EmptyState
    /\ uploaded_file = NoFile
    /\ chart = NotCalled
    /\ submitted = FALSE
    /\ widgets = NotCalled

\* The number of the five parameters in which p and q differ.
Distance(p, q) ==
    Cardinality({f \in DOMAIN p : p[f] # q[f]})

\* No parameter of p is above its value in q.
Before(p, q) == \A f \in DOMAIN p : p[f] <= q[f]

\* The two callers' arguments are equal or differ in one parameter, as two runs
\* of app.py do before and after one input widget changes.  The callers are
\* interchangeable (every action treats them alike), so caller 1 is the one
\* whose differing parameter is the lower.
Init ==
    /\ args \in {a \in [Callers -> Params] :
                    Distance(a[1], a[2]) <= 1 /\ Before(a[1], a[2])}
    /\ bs_model = [c \in Callers |-> NoObject]
    /\ prices = [c \in Callers |-> NotCalled]
    /\ greeks = [c \in Callers |-> NotCalled]
    /\ d1_d2 = [c \in Callers |-> NotCalled]
    /\ NewSession

\* bs_model = BlackScholes(time_to_maturity, strike, current_price, volatility,
\*                         interest_rate)
Construct(c) ==
    /\ bs_model[c] = NoObject
    /\ bs_model' = [bs_model EXCEPT ![c] =
                      __init__(args[c].time_to_maturity, args[c].strike,
                               args[c].current_price, args[c].volatility,
                               args[c].interest_rate)]
    /\ UNCHANGED <<args, prices, greeks, d1_d2>>
    /\ UNCHANGED pageVars

\* CalculatePrices with the result kept in one place shared by all engines (a
\* class attribute), from which every caller reads.
CalculatePricesShared(c) ==
    /\ bs_model[c] # NoObject
    /\ prices' = [d \in Callers |-> calculate_prices(bs_model[c])]
    /\ d1_d2' = [d1_d2 EXCEPT ![c] = calculate_d1_d2(bs_model[c])]
    /\ UNCHANGED <<args, bs_model, greeks>>
    /\ UNCHANGED pageVars

\* call_price, put_price = bs_model.calculate_prices()
CalculatePrices(c) ==
    /\ bs_model[c] # NoObject
    /\ prices' = [prices EXCEPT ![c] = calculate_prices(bs_model[c])]
    /\ d1_d2' = [d1_d2 EXCEPT ![c] = calculate_d1_d2(bs_model[c])]
    /\ UNCHANGED <<args, bs_model, greeks>>
    /\ UNCHANGED pageVars

\* CalculateGreeks with the rate negated in place for the discount factor
\* (self.interest_rate = -self.interest_rate) and left so.
CalculateGreeksInPlace(c) ==
    /\ bs_model[c] # NoObject
    /\ greeks' = [greeks EXCEPT ![c] = calculate_greeks(bs_model[c])]
    /\ d1_d2' = [d1_d2 EXCEPT ![c] = calculate_d1_d2(bs_model[c])]
    /\ bs_model' = [bs_model EXCEPT ![c].interest_rate = -@]
    /\ UNCHANGED <<args, prices>>
    /\ UNCHANGED pageVars

\* c_delta, ..., p_rho = bs_model.calculate_greeks()
CalculateGreeks(c) ==
    /\ bs_model[c] # NoObject
    /\ greeks' = [greeks EXCEPT ![c] = calculate_greeks(bs_model[c])]
    /\ d1_d2' = [d1_d2 EXCEPT ![c] = calculate_d1_d2(bs_model[c])]
    /\ UNCHANGED <<args, bs_model, prices>>
    /\ UNCHANGED pageVars

Next ==
    \E c \in Callers :
        \/ Construct(c)
        \/ CalculatePrices(c)
        \/ CalculateGreeks(c)

Spec == Init /\ [][Next]_vars

(***************************************************************************)
(* The session of the pages: the three pages run in any order, any number  *)
(* of times, over one st.session_state.  app.py does not run in it.        *)
(***************************************************************************)

\* The values the input widgets of app.py start with.
DefaultArgs == __init__(ONE, 100 * ONE, 100 * ONE, ONE \div 5, ONE \div 20)

PagesInit ==
    /\ args = [c \in Callers |-> DefaultArgs]
    /\ bs_model = [c \in Callers |-> NoObject]
    /\ prices = [c \in Callers |-> NotCalled]
    /\ greeks = [c \in Callers |-> NotCalled]
    /\ d1_d2 = [c \in Callers |-> NotCalled]
    /\ NewSession

\* A run of pages/01_data_analysis.py in which the uploader holds f.
DataAnalysisRun(f) ==
    /\ uploaded_file' = f
    /\ session_state' = data_analysis(session_state, f)
    /\ UNCHANGED <<chart, submitted, widgets>>
    /\ UNCHANGED engineVars

\* A run of pages/02_visualization.py.
VisualizationRun ==
    /\ chart' = visualization(session_state)
    /\ UNCHANGED <<session_state, uploaded_file, submitted, widgets>>
    /\ UNCHANGED engineVars

\* What the form's widgets return in a run: on a submission what the user set
\* in the form that the run before displayed, otherwise their value
\* arguments, which are the stored settings.
WidgetValues(state, sub) ==
    IF sub THEN FormInputs(state["settings"])
    ELSE {InitSettings(state)["settings"]}

\* A run of pages/03_settings.py.  A run can be a submission only when an
\* earlier run has displayed the form.
SettingsRun(sub, w) ==
    /\ sub => "settings" \in DOMAIN session_state
    /\ w \in WidgetValues(session_state, sub)
    /\ submitted' = sub
    /\ widgets' = w
    /\ session_state' = settings_page(session_state, sub, w)
    /\ UNCHANGED <<uploaded_file, chart>>
    /\ UNCHANGED engineVars

PagesNext ==
    \/ \E f \in Files \cup {NoFile} : DataAnalysisRun(f)
    \/ VisualizationRun
    \/ \E sub \in BOOLEAN :
          \E w \in [auto_refresh : BOOLEAN,
                     refresh_interval : MinInterval..MaxInterval,
                     dark_mode : BOOLEAN, show_statistics : BOOLEAN] :
              SettingsRun(sub, w)

PagesSpec == PagesInit /\ [][PagesNext]_vars

(***************************************************************************)
(* The claims.                                                             *)
(***************************************************************************)

\* Caller c has a pair of prices in hand (calculate_prices returned normally).
HasPrices(c) == prices[c].exc = "none"

\* Caller c has the Greeks in hand (calculate_greeks returned normally).
HasGreeks(c) == greeks[c].exc = "none"

\* C1: for arguments with strike <= 0, spot <= 0, time_to_maturity <= 0 or
\* volatility <= 0 the construction fails, so that no engine exists for them
\* and neither method ever returns anything to the caller.
InvalidParametersRejected ==
    \A c \in Callers :
        ~IsValid(args[c]) =>
            /\ bs_model[c] = NoObject
            /\ prices[c] = NotCalled
            /\ greeks[c] = NotCalled

\* The tolerance of put-call parity, in units of the last digit carried: the
\* two sides are sums of products that are each rounded to the unit.
ParityTolerance == 2

SameArgumentsSameResults ==
    \A c, d \in Callers :
        args[c] = args[d] =>
            /\ prices[c] # NotCalled /\ prices[d] # NotCalled
                 => prices[c] = prices[d]
            /\ greeks[c] # NotCalled /\ greeks[d] # NotCalled
                 => greeks[c] = greeks[d]

\* A call that follows an earlier call returns what the earlier one returned.
RepeatedCallSameResult ==
    \A c \in Callers :
        /\ prices[c] # NotCalled => prices'[c] = prices[c]
        /\ greeks[c] # NotCalled => greeks'[c] = greeks[c]

\* C3: determinism and order independence.  Whatever has been called before
\* and in whichever order, a method returns the very value it returned before,
\* and two engines built from the same five parameters return the same values.
Determinism == []SameArgumentsSameResults /\ [][RepeatedCallSameResult]_vars

\* Both callers passed the same arguments and both hold prices and Greeks.
DeterminismWitness ==
    /\ args[1] = args[2]
    /\ IsValid(args[1])
    /\ \A c \in Callers : HasPrices(c) /\ HasGreeks(c)

\* C4: no side effects.  The engine's five attributes stay what the
\* constructor stored, and every result in a caller's hands is the result a
\* fresh engine with that caller's arguments returns when it runs alone,
\* whatever the other caller has done in between.
NoSideEffects ==
    \A c \in Callers :
        LET alone == __init__(args[c].time_to_maturity, args[c].strike,
                              args[c].current_price, args[c].volatility,
                              args[c].interest_rate)
        IN  /\ bs_model[c] # NoObject => bs_model[c] = alone
            /\ prices[c] # NotCalled => prices[c] = calculate_prices(alone)
            /\ greeks[c] # NotCalled => greeks[c] = calculate_greeks(alone)

\* The callers passed different arguments, and both hold prices and Greeks.
NoSideEffectsWitness ==
    /\ args[1] # args[2]
    /\ \A c \in Callers : HasPrices(c) /\ HasGreeks(c)

\* C5: the delta relationship.  For valid arguments c_delta - p_delta = 1.
DeltaRelationship ==
    \A c \in Callers :
        IsValid(args[c]) /\ HasGreeks(c) =>
            /\ IsFin(greeks[c].c_delta)
            /\ IsFin(greeks[c].p_delta)
            /\ greeks[c].c_delta.v - greeks[c].p_delta.v = ONE

\* A valid caller holds deltas that are both off their end points.
DeltaRelationshipWitness ==
    \E c \in Callers :
      /\ IsValid(args[c]) /\ HasGreeks(c)
      /\ greeks[c].c_delta.v > 0
      /\ greeks[c].p_delta.v < 0

GreekNames ==
    {"c_delta", "p_delta", "gamma", "c_theta", "p_theta", "vega", "c_rho", "p_rho"}

StrictDeltaRanges ==
    \A c \in Callers :
        IsValid(args[c]) /\ HasGreeks(c) =>
            /\ 0 < greeks[c].c_delta.v /\ greeks[c].c_delta.v < ONE
            /\ -ONE < greeks[c].p_delta.v /\ greeks[c].p_delta.v < 0

\* C8, amended: for valid arguments c_delta lies in [0, 1] and p_delta in
\* [-1, 0], the end points included: norm.cdf(d1) is exactly 1.0 once d1 is
\* large, and norm.cdf(d1) - 1 is exactly -1.0 once d1 is large and negative.
ClosedDeltaRanges ==
    \A c \in Callers :
        IsValid(args[c]) /\ HasGreeks(c) =>
            /\ IsFin(greeks[c].c_delta) /\ IsFin(greeks[c].p_delta)
            /\ 0 <= greeks[c].c_delta.v /\ greeks[c].c_delta.v <= ONE
            /\ -ONE <= greeks[c].p_delta.v /\ greeks[c].p_delta.v <= 0

\* A valid caller deep in the money holds c_delta = 1 and p_delta = 0.
ClosedDeltaRangesWitness ==
    \E c \in Callers :
      /\ IsValid(args[c]) /\ HasGreeks(c)
      /\ greeks[c].c_delta.v = ONE
      /\ greeks[c].p_delta.v = 0

\* p and q are equal but for the parameter f.
SameBut(p, q, f) == \A g \in DOMAIN p : g # f => p[g] = q[g]

NonNegativeGammaVega ==
    \A c \in Callers :
        IsValid(args[c]) /\ HasGreeks(c) =>
            /\ DOMAIN greeks[c] = GreekNames \cup {"exc"}
            /\ IsFin(greeks[c].gamma) /\ greeks[c].gamma.v >= 0
            /\ IsFin(greeks[c].vega) /\ greeks[c].vega.v >= 0

\* A valid caller holds a gamma and a vega that are both positive, with d1 < 0.
GammaVegaWitness ==
    \E c \in Callers :
      /\ IsValid(args[c]) /\ HasGreeks(c)
      /\ greeks[c].gamma.v > 0
      /\ greeks[c].vega.v > 0
      /\ greeks[c].c_delta.v < ONE \div 2

\* The pair a method of caller c last got from calculate_d1_d2.
HasD1D2(c) == d1_d2[c] # NotCalled /\ d1_d2[c].exc = "none"

\* The rounding allowed when d1 is checked by multiplying it back: d1 is a
\* quotient rounded to the last digit and its divisor is below 1.
D1Tolerance == 1

\* d1 and d2 are the values of the formulas for the parameters p: d1 times
\* volatility * sqrt(T) gives back ln(spot / strike) + (rate + 0.5 *
\* volatility^2) * T, and d1 - d2 is volatility * sqrt(T).
IsD1D2Of(d, p) ==
    LET vol_sqrt_t == MulF(p.volatility, SqrtF(p.time_to_maturity))
        numerator  == LnF(DivF(p.current_price, p.strike))
                      + MulF(p.interest_rate
                             + RoundDiv(MulF(p.volatility, p.volatility), 2),
                             p.time_to_maturity)
    IN  /\ DOMAIN d = {"exc", "d1", "d2"}
        /\ IsFin(d.d1) /\ IsFin(d.d2)
        /\ Abs(MulF(d.d1.v, vol_sqrt_t) - numerator) <= D1Tolerance
        /\ d.d1.v - d.d2.v = vol_sqrt_t

\* Every output in res is the value of its formula at the pair d.
PricesFrom(res, self, d) ==
    /\ res.call_price = CallPrice(self, d.d1, d.d2)
    /\ res.put_price = PutPrice(self, d.d1, d.d2)

GreeksFrom(res, self, d) ==
    /\ res.c_delta = CallDelta(d.d1)
    /\ res.p_delta = PutDelta(d.d1)
    /\ res.gamma = Gamma(self, d.d1)
    /\ res.vega = Vega(self, d.d1)
    /\ res.c_theta = XSub(ThetaDecay(self, d.d1), ThetaCarry(self, d.d2))
    /\ res.p_theta = XAdd(ThetaDecay(self, d.d1), ThetaCarry(self, XNeg(d.d2)))
    /\ res.c_rho = CallRho(self, d.d2)
    /\ res.p_rho = PutRho(self, d.d2)

\* C11: the pair calculate_d1_d2 returns is (d1, d2) of the two formulas for
\* the engine's parameters, and the prices and the Greeks in a caller's hands
\* are all derived from that one pair: no output comes from another d1 or d2.
D1D2Formula ==
    \A c \in Callers :
        HasD1D2(c) =>
            /\ IsValid(args[c]) => IsD1D2Of(d1_d2[c], args[c])
            /\ HasPrices(c) => PricesFrom(prices[c], bs_model[c], d1_d2[c])
            /\ HasGreeks(c) => GreeksFrom(greeks[c], bs_model[c], d1_d2[c])

\* A valid caller holds prices and Greeks, and its d1 and d2 differ in sign.
D1D2Witness ==
    \E c \in Callers :
      /\ IsValid(args[c]) /\ HasD1D2(c)
      /\ HasPrices(c) /\ HasGreeks(c)
      /\ d1_d2[c].d1.v > 0 /\ d1_d2[c].d2.v < 0

\* st.session_state["data_loaded"] is there and true.
DataLoaded ==
    "data_loaded" \in DOMAIN session_state /\ session_state["data_loaded"]

SettingsPageHasRun == widgets # NotCalled

\* After the first run of the settings page "settings" holds the four keys
\* and no other, the interval is within the slider's range, and after a
\* submitted run the four values are the ones the widgets returned.
SettingsShape ==
    SettingsPageHasRun =>
        /\ "settings" \in DOMAIN session_state
        /\ DOMAIN session_state["settings"] = SettingsKeys
        /\ session_state["settings"].refresh_interval \in MinInterval..MaxInterval
        /\ \A k \in SettingsKeys \ {"refresh_interval"} :
               session_state["settings"][k] \in BOOLEAN
        /\ submitted => session_state["settings"] = widgets

\* A step from a state that has settings keeps them, unless it is a run in
\* which the form was submitted, and then they become what the widgets
\* returned in that run.
SettingsStep ==
    "settings" \in DOMAIN session_state =>
        /\ "settings" \in DOMAIN session_state'
        /\ session_state'["settings"] # session_state["settings"] =>
               /\ submitted'
               /\ session_state'["settings"] = widgets'

\* C13: the frame of the settings page.  After its first run "settings"
\* always holds exactly auto_refresh, refresh_interval, dark_mode and
\* show_statistics, with refresh_interval within 1..60; a run that is not a
\* submission leaves the four values as they were, and a submission sets the
\* four to what the form's widgets hold.
SettingsFrame == []SettingsShape /\ [][SettingsStep]_vars

\* A submission has stored values that all differ from the initial ones, and
\* a run that was no submission has followed it.
SettingsWitness ==
    /\ SettingsPageHasRun /\ ~submitted
    /\ "settings" \in DOMAIN session_state
    /\ session_state["settings"].auto_refresh
    /\ session_state["settings"].dark_mode
    /\ ~session_state["settings"].show_statistics
    /\ session_state["settings"].refresh_interval = MaxInterval

====
